---- MODULE Spec2Model ----
(***************************************************************************)
(* A model of the CIFAR10 notebook's training loop (train_model) and       *)
(* evaluation routine (test_model).                                        *)
(*                                                                         *)
(* The network is abstracted to its observable behaviour: `weights` is a   *)
(* number that encodes the table of top-1 predictions over the validation  *)
(* images (digit i-1 in base NumClasses is the class predicted for image   *)
(* i).  The optimizer step may move the weights to any table.  An accuracy *)
(* is kept as a fraction <<numerator, denominator>> so that the division   *)
(* by the dataset size is a real operation of the model.  The loss and the *)
(* TensorBoard writer only receive values and are left out.                *)
(***************************************************************************)
EXTENDS Integers, Sequences, FiniteSets

\* ------------------------------------------------------------- bounds
MaxEpochs == 3
MaxCheckPoint == 2
MaxBatchSize == 2
MaxParam == 2
ValItems == 2
TrainItems == 2
MaxTestItems == 4
MaxTestBatch == 3
MaxCalls == 2

NumClasses == 2

Classes == 0..(NumClasses - 1)
Weights == 0..MaxParam
PhaseNames == {"train", "validation"}

VARIABLES
    num_epochs,      \* params['num_epochs']
    check_point,     \* params['check_point']
    batch_size,      \* data_params['batch_size'], shared by both loaders
    validation_set,  \* labels of the validation dataset, in loader order
    train_size,      \* len(params['train_loader'].dataset)
    pc,              \* position of the thread of control
    ret,             \* which call of test_model is running
    weights,         \* model.state_dict()
    mode,            \* model.training: "train" or "eval"
    grad,            \* the parameters' .grad: "none", "zero" or "computed"
    sched,           \* number of scheduler.step() calls
    best_accuracy,   \* train_model's best_accuracy
    best_model,      \* train_model's best_model
    epoch,           \* loop variable of train_model (-1: not yet bound)
    phase,           \* loop variable of the phase loop
    batch,           \* index of the next batch of the phase's loader
    logs,            \* train_model's logs['Accuracy']
    tbatch,          \* index of the next batch in test_model
    tlogs,           \* test_model's logs['Accuracy']
    retval,          \* value returned by test_model
    file,            \* the checkpoint file on disk
    measured,        \* history: validation measurements (accuracy, parameters)
    writes,          \* history: epoch index of every torch.save
    passes,          \* history: completed iterations over each loader
    test_calls,      \* history: number of test_model invocations
    nzero,           \* history: optimizer.zero_grad() calls per phase
    nback,           \* history: loss.backward() calls per phase
    nstep,           \* history: optimizer.step() calls per phase
    nbatch,          \* history: batches processed per phase
    ops,             \* history: operations done on the current batch
    elog,            \* history: events of the current epoch
    epochs_done,     \* history: epochs whose checkpoint step has run
    results          \* history: values returned to the notebook cell

vars == <<num_epochs, check_point, batch_size, validation_set, train_size,
          pc, ret, weights, mode, grad, sched, best_accuracy, best_model,
          epoch, phase, batch, logs, tbatch, tlogs, retval, file, measured,
          writes, passes, test_calls, nzero, nback, nstep, nbatch, ops, elog,
          epochs_done, results>>

paramVars == <<num_epochs, check_point, batch_size, validation_set, train_size>>
trainVars == <<best_accuracy, best_model, epoch, phase, batch, logs>>
testVars == <<tbatch, tlogs, retval>>
countVars == <<nzero, nback, nstep, nbatch, ops, elog, epochs_done>>

\* ------------------------------------------------------------ helpers
RECURSIVE Pow(_, _)
Pow(b, n) == IF n = 0 THEN 1 ELSE b * Pow(b, n - 1)

Min(a, b) == IF a < b THEN a ELSE b

\* torch.max(model(image), 1)[1] for image number i of the validation set
Predict(w, i) == (w \div Pow(NumClasses, i - 1)) % NumClasses

\* len(loader): a DataLoader yields ceil(n / batch_size) batches
NumBatches(n, bs) == (n + bs - 1) \div bs

\* the dataset indices of batch number b (shuffle=False: consecutive chunks)
BatchItems(n, bs, b) == ((b - 1) * bs + 1)..Min(b * bs, n)

\* torch.sum(torch.max(prediction, 1)[1] == label.data).item()
CorrectInBatch(w, labels, bs, b) ==
    Cardinality({i \in BatchItems(Len(labels), bs, b) : Predict(w, i) = labels[i]})

\* logs['Accuracy'] += accuracy
Accumulate(l, a) == <<l[1] + a, l[2]>>

\* variant: division by len(loader) in place of len(loader.dataset)
NormalizeByBatches(l, n) == <<l[1], l[2] * NumBatches(n, batch_size)>>

\* logs['Accuracy'] /= len(loader.dataset)
Normalize(l, n) == <<l[1], l[2] * n>>

GreaterThan(a, b) == a[1] * b[2] > b[1] * a[2]
FracEq(a, b) == a[1] * b[2] = b[1] * a[2]

\* len(params[phase+'_loader'].dataset)
DatasetSize(p) == IF p = "train" THEN train_size ELSE Len(validation_set)

\* variant: an off-by-one range that runs one epoch too many
EpochRangeInclusive(E) == 0..E

\* range(params['num_epochs'])
EpochRange(E) == 0..(E - 1)

\* variant: the two phases swapped
PhasesReversed == <<"validation", "train">>

\* for phase in ['train', 'validation']
Phases == <<"train", "validation">>

\* variant: gradients enabled in both phases
GradEnabledAlways(p) == p \in PhaseNames

\* torch.set_grad_enabled(phase == 'train') / if phase == 'train'
GradEnabled(p) == p = "train"

\* scheduler.step()
SchedulerStep(s) == s + 1

\* variant: >= in place of >
ImprovesOrTies(acc, best) == ~GreaterThan(best, acc)

\* logs['Accuracy'] > best_accuracy
Improves(acc, best) == GreaterThan(acc, best)

\* variant: the final-epoch disjunct dropped
CheckpointDueNoFinal(e, c, E) == e % c = 0

\* epoch % params['check_point'] == 0 or epoch == params['num_epochs']-1
CheckpointDue(e, c, E) == e % c = 0 \/ e = E - 1

\* variant: the live parameters saved in place of the best snapshot
SavedLiveModel == weights

\* the object handed to torch.save
SavedObject == best_model

\* history counters, one per phase
ZeroCount == [p \in PhaseNames |-> 0]
Bump(f, p) == [f EXCEPT ![p] = @ + 1]

\* ------------------------------------------------------------ initial
\* The state common to both entry points: a freshly loaded pretrained model
\* (nn.Module starts in training mode, no gradients allocated), no file.
InitCommon ==
    /\ train_size = TrainItems
    /\ mode = "train"
    /\ grad = "none"
    /\ sched = 0
    /\ best_accuracy = <<0, 1>>
    /\ best_model = 0
    /\ epoch = -1
    /\ phase = "train"
    /\ batch = 1
    /\ logs = <<0, 1>>
    /\ tbatch = 1
    /\ tlogs = <<0, 1>>
    /\ retval = <<0, 1>>
    /\ ret = "none"
    /\ file = [exists |-> FALSE, content |-> 0]
    /\ measured = <<>>
    /\ writes = <<>>
    /\ passes = ZeroCount
    /\ test_calls = 0
    /\ nzero = ZeroCount
    /\ nback = ZeroCount
    /\ nstep = ZeroCount
    /\ nbatch = ZeroCount
    /\ ops = <<>>
    /\ elog = <<>>
    /\ epochs_done = 0
    /\ results = <<>>

\* train_model(model, train_params) is about to be called
Init ==
    /\ InitCommon
    /\ num_epochs \in 0..MaxEpochs
    /\ check_point \in 1..MaxCheckPoint
    /\ batch_size \in 1..MaxBatchSize
    /\ validation_set \in {[i \in 1..ValItems |-> 0],
                          [i \in 1..ValItems |-> i % NumClasses]}
    /\ weights \in Weights
    /\ pc = "setup"

\* the notebook calls test_model(model, params) on its own
InitTest ==
    /\ InitCommon
    /\ num_epochs = 0
    /\ check_point = 1
    /\ batch_size \in 1..MaxTestBatch
    /\ \E n \in 1..MaxTestItems : validation_set \in [1..n -> Classes]
    /\ weights \in Weights
    /\ pc = "idle"

\* --------------------------------------------------------- test_model
\* model.to(device).eval(); phase = 'validation'; logs = {'Accuracy': 0.0}
TestBegin ==
    /\ pc = "test_begin"
    /\ mode' = "eval"
    /\ tlogs' = <<0, 1>>
    /\ tbatch' = 1
    /\ pc' = "test_loop"
    /\ UNCHANGED <<paramVars, trainVars, countVars, ret, weights, grad, sched,
                   retval, file, measured, writes, passes, test_calls, results>>

\* variant: a batch of test_model that also updates the parameters
TestBatchTraining ==
    /\ pc = "test_loop"
    /\ tbatch <= NumBatches(Len(validation_set), batch_size)
    /\ tlogs' = Accumulate(tlogs, CorrectInBatch(weights, validation_set, batch_size, tbatch))
    /\ tbatch' = tbatch + 1
    /\ weights' \in Weights
    /\ UNCHANGED <<paramVars, trainVars, countVars, pc, ret, mode, grad, sched,
                   retval, file, measured, writes, passes, test_calls, results>>

\* one batch of the loop: prediction under no_grad, count of correct items
TestBatch ==
    /\ pc = "test_loop"
    /\ tbatch <= NumBatches(Len(validation_set), batch_size)
    /\ tlogs' = Accumulate(tlogs, CorrectInBatch(weights, validation_set, batch_size, tbatch))
    /\ tbatch' = tbatch + 1
    /\ UNCHANGED <<paramVars, trainVars, countVars, pc, ret, weights, mode, grad,
                   sched, retval, file, measured, writes, passes, test_calls,
                   results>>

\* the loader is exhausted: normalize the count and return it
TestEnd ==
    /\ pc = "test_loop"
    /\ tbatch > NumBatches(Len(validation_set), batch_size)
    /\ tlogs' = Normalize(tlogs, Len(validation_set))
    /\ retval' = tlogs'
    /\ passes' = Bump(passes, "validation")
    /\ pc' = "test_return"
    /\ UNCHANGED <<paramVars, trainVars, countVars, ret, weights, mode, grad,
                   sched, tbatch, file, measured, writes, test_calls, results>>

\* a notebook cell: test_model(model, train_params)
TestCall ==
    /\ pc = "idle"
    /\ Len(results) < MaxCalls
    /\ pc' = "test_begin"
    /\ ret' = "standalone"
    /\ test_calls' = test_calls + 1
    /\ UNCHANGED <<paramVars, trainVars, testVars, countVars, weights, mode,
                   grad, sched, file, measured, writes, passes, results>>

\* the call returns to the notebook cell
TestReturn ==
    /\ pc = "test_return"
    /\ ret = "standalone"
    /\ results' = Append(results, retval)
    /\ pc' = "idle"
    /\ ret' = "none"
    /\ UNCHANGED <<paramVars, trainVars, testVars, countVars, weights, mode,
                   grad, sched, file, measured, writes, passes, test_calls>>

\* -------------------------------------------------------- train_model
\* writer, optimizer, scheduler, criterion; then the call of test_model
Setup ==
    /\ pc = "setup"
    /\ pc' = "test_begin"
    /\ ret' = "baseline"
    /\ test_calls' = test_calls + 1
    /\ UNCHANGED <<paramVars, trainVars, testVars, countVars, weights, mode,
                   grad, sched, file, measured, writes, passes, results>>

\* best_accuracy = test_model(...); best_model = copy.deepcopy(state_dict)
Baseline ==
    /\ pc = "test_return"
    /\ ret = "baseline"
    /\ best_accuracy' = retval
    /\ best_model' = weights
    /\ measured' = Append(measured, [acc |-> retval, params |-> weights])
    /\ ret' = "none"
    /\ pc' = "epoch_next"
    /\ UNCHANGED <<paramVars, testVars, countVars, weights, mode, grad, sched,
                   epoch, phase, batch, logs, file, writes, passes, test_calls,
                   results>>

\* the next value of `epoch`, scheduler.step(), the first phase
EpochNext ==
    /\ pc = "epoch_next"
    /\ epoch + 1 \in EpochRange(num_epochs)
    /\ epoch' = epoch + 1
    /\ sched' = SchedulerStep(sched)
    /\ phase' = Phases[1]
    /\ elog' = <<"sched">>
    /\ pc' = "phase_begin"
    /\ UNCHANGED <<paramVars, testVars, ret, weights, mode, grad, best_accuracy,
                   best_model, batch, logs, file, measured, writes, passes,
                   test_calls, nzero, nback, nstep, nbatch, ops, epochs_done,
                   results>>

\* variant: the run ends without the final evaluation
LoopExitNoFinal ==
    /\ pc = "epoch_next"
    /\ epoch + 1 \notin EpochRange(num_epochs)
    /\ pc' = "done"
    /\ UNCHANGED <<paramVars, trainVars, testVars, countVars, ret, weights,
                   mode, grad, sched, file, measured, writes, passes,
                   test_calls, results>>

\* the epoch loop is exhausted: final_accuracy = test_model(model, params)
LoopExit ==
    /\ pc = "epoch_next"
    /\ epoch + 1 \notin EpochRange(num_epochs)
    /\ pc' = "test_begin"
    /\ ret' = "final"
    /\ test_calls' = test_calls + 1
    /\ UNCHANGED <<paramVars, trainVars, testVars, countVars, weights, mode,
                   grad, sched, file, measured, writes, passes, results>>

\* logs = {...}; model.train() if phase == 'train' else model.eval()
PhaseBegin ==
    /\ pc = "phase_begin"
    /\ logs' = <<0, 1>>
    /\ mode' = IF phase = "train" THEN "train" ELSE "eval"
    /\ batch' = 1
    /\ pc' = "batch_next"
    /\ UNCHANGED <<paramVars, testVars, countVars, ret, weights, grad, sched,
                   best_accuracy, best_model, epoch, phase, file, measured,
                   writes, passes, test_calls, results>>

\* the loader yields the next batch, moved to the device
FetchBatch ==
    /\ pc = "batch_next"
    /\ batch <= NumBatches(DatasetSize(phase), batch_size)
    /\ ops' = <<>>
    /\ pc' = "zero_grad"
    /\ UNCHANGED <<paramVars, trainVars, testVars, ret, weights, mode, grad,
                   sched, file, measured, writes, passes, test_calls, nzero,
                   nback, nstep, nbatch, elog, epochs_done, results>>

\* the loader is exhausted
FeedExhausted ==
    /\ pc = "batch_next"
    /\ batch > NumBatches(DatasetSize(phase), batch_size)
    /\ passes' = Bump(passes, phase)
    /\ pc' = "phase_end"
    /\ UNCHANGED <<paramVars, trainVars, testVars, countVars, ret, weights,
                   mode, grad, sched, file, measured, writes, test_calls,
                   results>>

\* optimizer.zero_grad()
ZeroGrad ==
    /\ pc = "zero_grad"
    /\ grad' = "zero"
    /\ nzero' = Bump(nzero, phase)
    /\ ops' = Append(ops, "zero_grad")
    /\ pc' = "forward"
    /\ UNCHANGED <<paramVars, trainVars, testVars, ret, weights, mode, sched,
                   file, measured, writes, passes, test_calls, nback, nstep,
                   nbatch, elog, epochs_done, results>>

\* prediction, loss, accuracy, logs update.  The training loader shuffles and
\* augments at random, so the count of correct training predictions is any
\* number up to the batch length; the validation loader is deterministic.
Forward ==
    /\ pc = "forward"
    /\ \E a \in 0..Cardinality(BatchItems(DatasetSize(phase), batch_size, batch)) :
          /\ phase = "validation" =>
                a = CorrectInBatch(weights, validation_set, batch_size, batch)
          /\ logs' = Accumulate(logs, a)
    /\ ops' = Append(ops, "forward")
    /\ IF GradEnabled(phase)
          THEN /\ pc' = "backward"
               /\ UNCHANGED <<batch, nbatch, elog>>
          ELSE /\ pc' = "batch_next"
               /\ batch' = batch + 1
               /\ nbatch' = Bump(nbatch, phase)
               /\ elog' = Append(elog, phase)
    /\ UNCHANGED <<paramVars, testVars, ret, weights, mode, grad, sched,
                   best_accuracy, best_model, epoch, phase, file, measured,
                   writes, passes, test_calls, nzero, nback, nstep, epochs_done,
                   results>>

\* loss.backward()
Backward ==
    /\ pc = "backward"
    /\ grad' = "computed"
    /\ nback' = Bump(nback, phase)
    /\ ops' = Append(ops, "backward")
    /\ pc' = "opt_step"
    /\ UNCHANGED <<paramVars, trainVars, testVars, ret, weights, mode, sched,
                   file, measured, writes, passes, test_calls, nzero, nstep,
                   nbatch, elog, epochs_done, results>>

\* optimizer.step(): the parameters move to some value
OptStep ==
    /\ pc = "opt_step"
    /\ weights' \in Weights
    /\ nstep' = Bump(nstep, phase)
    /\ ops' = Append(ops, "step")
    /\ batch' = batch + 1
    /\ nbatch' = Bump(nbatch, phase)
    /\ elog' = Append(elog, phase)
    /\ pc' = "batch_next"
    /\ UNCHANGED <<paramVars, testVars, ret, mode, grad, sched, best_accuracy,
                   best_model, epoch, phase, logs, file, measured, writes,
                   passes, test_calls, nzero, nback, epochs_done, results>>

\* normalize the logs, write them, keep the best weights, go to the next phase
PhaseEnd ==
    /\ pc = "phase_end"
    /\ logs' = Normalize(logs, DatasetSize(phase))
    /\ IF phase = "validation"
          THEN /\ measured' = Append(measured, [acc |-> logs', params |-> weights])
               /\ elog' = Append(elog, "update")
               /\ IF Improves(logs', best_accuracy)
                     THEN /\ best_accuracy' = logs'
                          /\ best_model' = weights
                     ELSE UNCHANGED <<best_accuracy, best_model>>
          ELSE UNCHANGED <<measured, elog, best_accuracy, best_model>>
    /\ IF phase = Phases[1]
          THEN /\ phase' = Phases[2]
               /\ pc' = "phase_begin"
          ELSE /\ pc' = "checkpoint"
               /\ UNCHANGED phase
    /\ UNCHANGED <<paramVars, testVars, ret, weights, mode, grad, sched, epoch,
                   batch, file, writes, passes, test_calls, nzero, nback, nstep,
                   nbatch, ops, epochs_done, results>>

\* write the best weights to disk when the epoch asks for it
Checkpoint ==
    /\ pc = "checkpoint"
    /\ IF CheckpointDue(epoch, check_point, num_epochs)
          THEN /\ file' = [exists |-> TRUE, content |-> SavedObject]
               /\ writes' = Append(writes, epoch)
               /\ elog' = Append(elog, "save")
          ELSE UNCHANGED <<file, writes, elog>>
    /\ epochs_done' = epochs_done + 1
    /\ pc' = "epoch_next"
    /\ UNCHANGED <<paramVars, trainVars, testVars, ret, weights, mode, grad,
                   sched, measured, passes, test_calls, nzero, nback, nstep,
                   nbatch, ops, results>>

\* writer.add_text('Final_Accuracy', ...); writer.close()
Final ==
    /\ pc = "test_return"
    /\ ret = "final"
    /\ results' = Append(results, retval)
    /\ ret' = "none"
    /\ pc' = "done"
    /\ UNCHANGED <<paramVars, trainVars, testVars, countVars, weights, mode,
                   grad, sched, file, measured, writes, passes, test_calls>>

\* an error in the data feed, the device transfer or the optimizer ends the run
Abort ==
    /\ pc \notin {"done", "aborted", "idle"}
    /\ pc' = "aborted"
    /\ UNCHANGED <<paramVars, trainVars, testVars, countVars, ret, weights,
                   mode, grad, sched, file, measured, writes, passes,
                   test_calls, results>>

Next ==
    \/ Setup
    \/ TestBegin
    \/ TestBatch
    \/ TestEnd
    \/ Baseline
    \/ EpochNext
    \/ LoopExit
    \/ PhaseBegin
    \/ FetchBatch
    \/ FeedExhausted
    \/ ZeroGrad
    \/ Forward
    \/ Backward
    \/ OptStep
    \/ PhaseEnd
    \/ Checkpoint
    \/ Final
    \/ Abort

Spec == Init /\ [][Next]_vars

NextTest ==
    \/ TestCall
    \/ TestBegin
    \/ TestBatch
    \/ TestEnd
    \/ TestReturn

SpecTest == InitTest /\ [][NextTest]_vars

\* ------------------------------------------------------------- claims
Range(q) == {q[i] : i \in 1..Len(q)}

Count(q, x) == Cardinality({i \in 1..Len(q) : q[i] = x})

IsPrefix(q, t) == Len(q) <= Len(t) /\ \A i \in 1..Len(q) : q[i] = t[i]

\* the index of the first measurement of h that reaches h's highest accuracy
FirstMaxIdx(h) ==
    CHOOSE i \in 1..Len(h) :
        /\ \A j \in 1..Len(h) : ~GreaterThan(h[j].acc, h[i].acc)
        /\ \A j \in 1..(i - 1) : GreaterThan(h[i].acc, h[j].acc)

InEpoch == pc \in {"phase_begin", "batch_next", "zero_grad", "forward",
                   "backward", "opt_step", "phase_end", "checkpoint"}

\* C1: once the baseline is measured, best_accuracy is the highest accuracy
\* among the baseline and the validation measurements so far, and best_model
\* is the copy of the parameters taken where that accuracy was first reached.
C1_BestIsFirstMax ==
    Len(measured) >= 1 =>
        /\ FracEq(best_accuracy, measured[FirstMaxIdx(measured)].acc)
        /\ best_model = measured[FirstMaxIdx(measured)].params

\* a tie with other parameters, then an improvement, then a lower measurement
C1_Witness ==
    /\ Len(measured) >= 4
    /\ FracEq(measured[2].acc, measured[1].acc)
    /\ measured[2].params # measured[1].params
    /\ GreaterThan(measured[3].acc, measured[2].acc)
    /\ GreaterThan(best_accuracy, measured[4].acc)
    /\ best_model = measured[3].params
    /\ best_model # weights

\* C2: the checkpoint file is written at the end of epoch e exactly when e is a
\* multiple of check_point or e is the last epoch, once, and at no other time.
C2_CheckpointEpochs ==
    /\ \A e \in -1..(MaxEpochs + 1) :
          e \in Range(writes) <=>
             /\ e \in 0..(epochs_done - 1)
             /\ (e % check_point = 0 \/ e = num_epochs - 1)
    /\ Cardinality(Range(writes)) = Len(writes)
    /\ epochs_done <= num_epochs

\* three epochs with interval 2: epoch 1 is skipped, epoch 2 is written
C2_Witness ==
    /\ pc = "done"
    /\ num_epochs = 3
    /\ check_point = 2
    /\ writes = <<0, 2>>

\* C3: the file exists only once written, and then holds the best snapshot as
\* of the last write (the first maximum of the measurements made up to that
\* write); after a complete run of one epoch or more it holds the best of the
\* whole run.
C3_FileIsBestAtLastWrite ==
    /\ file.exists <=> writes # <<>>
    /\ file.exists =>
          LET h == SubSeq(measured, 1, writes[Len(writes)] + 2)
          IN  file.content = h[FirstMaxIdx(h)].params
    /\ (pc = "done" /\ num_epochs >= 1) =>
          /\ file.exists
          /\ file.content = measured[FirstMaxIdx(measured)].params

\* an aborted run whose file is behind the best snapshot and is not the live
\* parameters
C3_Witness ==
    /\ pc = "aborted"
    /\ file.exists
    /\ file.content # best_model
    /\ file.content # weights
    /\ best_model # weights

\* C4 as stated: with zero epochs the run measures the baseline, writes one
\* checkpoint and takes no optimizer step.
C4_ZeroEpochsOneCheckpoint ==
    (pc = "done" /\ num_epochs = 0) =>
        /\ Len(measured) = 1
        /\ Len(writes) = 1
        /\ nstep["train"] = 0 /\ nstep["validation"] = 0

\* C4 amended: with zero epochs the run measures the baseline, writes no
\* checkpoint at all and takes no optimizer step.
C4_ZeroEpochsNoCheckpoint ==
    (pc = "done" /\ num_epochs = 0) =>
        /\ Len(measured) = 1
        /\ writes = <<>>
        /\ ~file.exists
        /\ nstep["train"] = 0 /\ nstep["validation"] = 0
        /\ weights = best_model

C4_Witness ==
    /\ pc = "done"
    /\ num_epochs = 0
    /\ test_calls = 2

\* C5 as stated: a complete run makes exactly num_epochs passes over the
\* training feed and exactly num_epochs passes over the validation feed.
C5_PassesBothFeeds ==
    pc = "done" =>
        /\ passes["train"] = num_epochs
        /\ passes["validation"] = num_epochs

\* C5 amended: a complete run makes exactly num_epochs passes over the training
\* feed; over the validation feed it makes num_epochs passes in the epoch loop
\* and two more in the two test_model calls.
C5_PassesWithEvaluations ==
    pc = "done" =>
        /\ passes["train"] = num_epochs
        /\ passes["validation"] = num_epochs + 2
        /\ nbatch["train"] = num_epochs * NumBatches(train_size, batch_size)
        /\ nbatch["validation"] =
              num_epochs * NumBatches(Len(validation_set), batch_size)

C5_Witness ==
    /\ pc = "done"
    /\ num_epochs = 2
    /\ passes["train"] = 2
    /\ passes["validation"] = 4
    /\ nbatch["train"] = 4

\* the number of validation items the model classifies correctly
NumCorrect(w, labels) ==
    Cardinality({i \in 1..Len(labels) : Predict(w, i) = labels[i]})

\* C6: test_model returns k/N, k the number of items of the whole validation
\* set whose prediction equals the label and N the size of the set, however
\* the set is split into batches.
C6_AccuracyIsKOverN ==
    /\ pc = "test_return" =>
          retval = <<NumCorrect(weights, validation_set), Len(validation_set)>>
    /\ \A i \in 1..Len(results) :
          FracEq(results[i], <<NumCorrect(weights, validation_set),
                               Len(validation_set)>>)

\* labels [0,0,1,1], a model that always predicts class 0, batches of 3 and 1
C6_Witness ==
    /\ validation_set = <<0, 0, 1, 1>>
    /\ weights = 0
    /\ batch_size = 3
    /\ Len(results) >= 1
    /\ FracEq(results[1], <<1, 2>>)

\* C7: no step of test_model changes the parameters, computes a gradient or
\* steps the optimizer, and two successive calls return the same accuracy.
C7_TestModelPure ==
    [][/\ weights' = weights
       /\ grad' = grad
       /\ nback' = nback
       /\ nstep' = nstep
       /\ sched' = sched
       /\ \A i \in 1..Len(results') : results'[i] = results'[1]]_vars

C7_Witness ==
    /\ Len(results) = 2
    /\ mode = "eval"
    /\ NumBatches(Len(validation_set), batch_size) >= 2
    /\ results[1][1] >= 1

TrainOps == <<"zero_grad", "forward", "backward", "step">>
ValidationOps == <<"zero_grad", "forward">>
OpsOf(p) == IF p = "train" THEN TrainOps ELSE ValidationOps

\* C8 as stated: gradient clearing, backpropagation and the optimizer step are
\* done, in order around the forward pass, for each training batch and for no
\* validation batch.
C8_NoGradientWorkInValidation ==
    /\ nzero["validation"] = 0
    /\ nback["validation"] = 0
    /\ nstep["validation"] = 0
    /\ pc = "batch_next" =>
          /\ nzero["train"] = nbatch["train"]
          /\ nback["train"] = nbatch["train"]
          /\ nstep["train"] = nbatch["train"]
          /\ (phase = "train" /\ batch > 1) => ops = TrainOps

\* C8 amended: backpropagation and the optimizer step are done for each
\* training batch and for no validation batch, in the order clear gradients,
\* forward pass, backpropagation, optimizer step; the gradients are cleared
\* before the forward pass of every batch of both phases.
C8_GradientWorkPerBatch ==
    /\ nback["validation"] = 0
    /\ nstep["validation"] = 0
    /\ pc \in {"zero_grad", "forward", "backward", "opt_step"} =>
          IsPrefix(ops, OpsOf(phase))
    /\ pc = "batch_next" =>
          /\ nzero["train"] = nbatch["train"]
          /\ nback["train"] = nbatch["train"]
          /\ nstep["train"] = nbatch["train"]
          /\ nzero["validation"] = nbatch["validation"]
          /\ batch > 1 => ops = OpsOf(phase)

C8_Witness ==
    /\ pc = "batch_next"
    /\ phase = "validation"
    /\ batch > 1
    /\ ops = ValidationOps
    /\ nzero["validation"] >= 1
    /\ nstep["train"] >= 2
    /\ grad = "zero"

Rank(ev) ==
    CASE ev = "sched" -> 1
      [] ev = "train" -> 2
      [] ev = "validation" -> 3
      [] ev = "update" -> 4
      [] ev = "save" -> 5

\* C9: the scheduler has been stepped epoch + 1 times throughout epoch number
\* `epoch`; within an epoch the events come in the order: one scheduler step,
\* the training batches, the validation batches, the best-snapshot update, the
\* checkpoint write (if any); a finished epoch has done all of them.
C9_EpochOrder ==
    /\ sched = epoch + 1
    /\ \A i, j \in 1..Len(elog) : i < j => Rank(elog[i]) <= Rank(elog[j])
    /\ epoch >= 0 => elog # <<>> /\ elog[1] = "sched"
    /\ Count(elog, "sched") <= 1
    /\ Count(elog, "update") <= 1
    /\ Count(elog, "save") <= 1
    /\ (nstep["train"] > 0) => sched >= 1
    /\ (pc = "checkpoint" \/ (pc = "epoch_next" /\ epoch >= 0)) =>
          /\ Count(elog, "train") = NumBatches(train_size, batch_size)
          /\ Count(elog, "validation") =
                NumBatches(Len(validation_set), batch_size)
          /\ Count(elog, "update") = 1
    /\ (pc = "epoch_next" /\ epoch >= 0) =>
          (Count(elog, "save") = 1 <=>
              (epoch % check_point = 0 \/ epoch = num_epochs - 1))

C9_Witness ==
    /\ pc = "epoch_next"
    /\ epoch = 2
    /\ sched = 3
    /\ elog = <<"sched", "train", "train", "validation", "validation",
                "update", "save">>

\* C10 as stated: test_model is invoked once before the first epoch, once in
\* every epoch and once after the last one.
C10_TestModelEveryEpoch ==
    pc = "done" => test_calls = num_epochs + 2

\* C10 amended: test_model is invoked exactly twice in a run, once before the
\* first epoch and once after the last one; the validation phase of an epoch
\* is train_model's own loop and invokes nothing.
C10_TestModelTwice ==
    /\ (InEpoch \/ pc = "epoch_next") => test_calls = 1
    /\ pc = "done" => test_calls = 2
    /\ test_calls <= 2

C10_Witness ==
    /\ pc = "done"
    /\ num_epochs = 3
    /\ test_calls = 2
    /\ Len(measured) = 4

====
